---- MODULE Spec2Model ----
(***************************************************************************)
(* Model of the song catalogue service of src/api.py: the attribute-map    *)
(* normalizer, the reload decision, ingestion with rating preservation and *)
(* the query surface (list, search, rate), over one SQLite store.          *)
(*                                                                         *)
(* Encoding of Python values: None is the empty tuple and any other value  *)
(* v is the one-element tuple <<v>>, so that a field that is None and a    *)
(* field that holds a value can be compared.  Ratings and the numeric      *)
(* audio attributes are integers (3 stands for 3.0).                       *)
(***************************************************************************)
EXTENDS Integers, Sequences, FiniteSets, TLC

VARIABLES
    clock,        \* wall-clock time at which files are stamped
    jsonFile,     \* name of the fixture whose bytes config.DEFAULT_JSON_FILE holds
    jsonMtime,    \* os.path.getmtime(config.DEFAULT_JSON_FILE)
    dbState,      \* the store file: "absent", "ok" or "corrupt"
    tableExists,  \* whether the songs table has been created
    songs,        \* committed rows of the songs table (what any connection reads)
    dbMtime,      \* os.path.getmtime(config.DATABASE_URL)
    load,         \* per thread: the load_data call in progress, if any
    result,       \* outcome of the operation that took the last step
    json_data     \* argument handed to normalize_json (SpecNormalize)

vars == <<clock, jsonFile, jsonMtime, dbState, tableExists, songs, dbMtime,
          load, result, json_data>>

storeVars == <<dbState, tableExists, songs, dbMtime>>

----------------------------------------------------------------------------
(* Bounds and program constants *)

MaxClock == 2
MaxAttrs == 2
MaxPage == 2
MaxLimit == 1

MinRating == 0
MaxRatingValue == 5
MinPage == 1
MinLimit == 1
LimitCap == 100
DefaultRating == 0

DEFAULT_JSON_FILE == "playlist.json"
DATABASE_URL == "database.db"

----------------------------------------------------------------------------
(* Python values *)

None == <<>>
Some(v) == <<v>>

\* dict.get(k): the value at k, None when the key is absent
Get(d, k) == IF k \in DOMAIN d THEN d[k] ELSE None

\* dict.get(k, default)
GetOr(d, k, default) == IF k \in DOMAIN d THEN d[k] ELSE default

\* d[k] = v
Put(d, k, v) == [x \in (DOMAIN d) \cup {k} |-> IF x = k THEN v ELSE d[x]]

\* str(i) for the positions the model reaches
DecimalDigits == <<"0", "1", "2", "3", "4", "5", "6", "7", "8", "9">>
Str(i) == DecimalDigits[i + 1]

----------------------------------------------------------------------------
(* normalize_json *)

\* the body of the loop over range(song_count): the dict of position i after
\* the first k attributes of json_data have been assigned
RECURSIVE SongAttrs(_, _, _)
SongAttrs(json, i, k) ==
    IF k = 0 THEN [x \in {"index"} |-> Some(i)]
    ELSE Put(SongAttrs(json, i, k - 1), json[k].attr,
             Get(json[k].values, Str(i)))

SongWithRating(song) ==
    IF "star_rating" \notin DOMAIN song
    THEN Put(song, "star_rating", Some(DefaultRating))
    ELSE song

\* json_data is the parsed document: a sequence of [attr, values] in the
\* document's own order.  {} and None are both the empty sequence (both falsy).
normalize_json(json) ==
    IF json = <<>> THEN <<>>
    ELSE LET first_attr == json[1]
             song_count == Cardinality(DOMAIN first_attr.values)
         IN  [n \in 1..song_count |->
                 SongWithRating(SongAttrs(json, n - 1, Len(json)))]

----------------------------------------------------------------------------
(* Snapshot files.  Every path but config.DEFAULT_JSON_FILE is a fixture   *)
(* with fixed bytes; the default file holds the bytes of the fixture named *)
(* by jsonFile and is the only file the environment rewrites.              *)

IdAB == ("0" :> Some("a")) @@ ("1" :> Some("b"))
TitleXY == ("0" :> Some("X")) @@ ("1" :> Some("Y"))

\* the energy column is shorter than the id column
Snapshot_ab ==
    << [attr |-> "id", values |-> IdAB],
       [attr |-> "title", values |-> TitleXY],
       [attr |-> "energy", values |-> ("0" :> Some(8))] >>

\* the second record repeats index 0: its INSERT violates the primary key
Snapshot_dupidx ==
    << [attr |-> "index", values |-> ("0" :> Some(0)) @@ ("1" :> Some(0))],
       [attr |-> "id", values |-> IdAB],
       [attr |-> "title", values |-> TitleXY] >>

\* rows are inserted in descending idx order; the snapshot carries its own
\* star_rating column, one value outside [0,5]
Snapshot_rev ==
    << [attr |-> "id", values |-> IdAB],
       [attr |-> "index", values |-> ("0" :> Some(5)) @@ ("1" :> Some(2))],
       [attr |-> "title", values |-> TitleXY],
       [attr |-> "star_rating", values |-> ("0" :> Some(9)) @@ ("1" :> Some(4))] >>

\* a null id, a title column shorter than the id column, a key "01" that is
\* no str(i); the id a of the other snapshots does not appear
Snapshot_sparse ==
    << [attr |-> "id",
        values |-> ("0" :> Some("b")) @@ ("1" :> None) @@ ("01" :> Some("a"))],
       [attr |-> "title", values |-> ("0" :> Some("Y"))] >>

\* two records with the same id
Snapshot_dupid ==
    << [attr |-> "id", values |-> ("0" :> Some("a")) @@ ("1" :> Some("a"))],
       [attr |-> "title", values |-> TitleXY] >>

Fixtures ==
    { "missing.json", "bad.json", "empty.json", "ab.json", "dupidx.json", "rev.json", "sparse.json" }

Fixture(path) ==
    CASE path = "missing.json" -> [kind |-> "absent", data |-> <<>>]
      [] path = "bad.json" -> [kind |-> "malformed", data |-> <<>>]
      [] path = "empty.json" -> [kind |-> "json", data |-> <<>>]
      [] path = "ab.json" -> [kind |-> "json", data |-> Snapshot_ab]
      [] path = "dupidx.json" -> [kind |-> "json", data |-> Snapshot_dupidx]
      [] path = "rev.json" -> [kind |-> "json", data |-> Snapshot_rev]
      [] path = "sparse.json" -> [kind |-> "json", data |-> Snapshot_sparse]
      [] path = "dupid.json" -> [kind |-> "json", data |-> Snapshot_dupid]

\* open(file_path) followed by json.load
FileContent(path) ==
    IF path = DEFAULT_JSON_FILE THEN Fixture(jsonFile) ELSE Fixture(path)

\* os.path.exists(json_file)
FileExists(path) == FileContent(path).kind # "absent"

\* os.path.getmtime(json_file); the fixtures were written at time 0
FileMtime(path) == IF path = DEFAULT_JSON_FILE THEN jsonMtime ELSE 0

----------------------------------------------------------------------------
(* The store: SQL statements as operators on the set of rows *)

Store ==
    [dbState |-> dbState, tableExists |-> tableExists, songs |-> songs,
     dbMtime |-> dbMtime]

SetStore(st) ==
    /\ dbState' = st.dbState
    /\ tableExists' = st.tableExists
    /\ songs' = st.songs
    /\ dbMtime' = st.dbMtime

\* sqlite3.connect(config.DATABASE_URL): creates the file when it is missing
Connect(st, now) ==
    IF st.dbState = "absent"
    THEN [st EXCEPT !.dbState = "ok", !.dbMtime = now]
    ELSE st

\* whether a statement on the songs table runs instead of raising
Readable(st) == st.dbState = "ok" /\ st.tableExists

\* mutant: the commit leaves the store file's modification time as it was
Commit_KeepMtime(st, rows, now) == [st EXCEPT !.songs = rows]

\* conn.commit() of a transaction that wrote rows
Commit(st, rows, now) == [st EXCEPT !.songs = rows, !.dbMtime = now]

EmptyDict == [k \in {} |-> 0]

\* ORDER BY idx
RECURSIVE OrderByIdx(_)
OrderByIdx(rows) ==
    IF rows = {} THEN <<>>
    ELSE LET first == CHOOSE r \in rows : \A s \in rows : r.idx <= s.idx
         IN  <<first>> \o OrderByIdx(rows \ {first})

MaxIdx(rows) == CHOOSE m \in {r.idx : r \in rows} : \A r \in rows : r.idx <= m

\* mutant: the WHERE clause drops ratings up to 3
ExistingRatings_HighOnly(rows) ==
    LET rated == {r \in rows : r.star_rating > 3}
    IN  [k \in {r.id : r \in rated} |->
            LET same == {r \in rated : r.id = k}
            IN  (CHOOSE r \in same : r.idx = MaxIdx(same)).star_rating]

\* mutant: a key that is already in the dict is not assigned again
RECURSIVE DictOfRows_FirstWins(_, _)
DictOfRows_FirstWins(fetched, k) ==
    IF k = 0 THEN EmptyDict
    ELSE LET d == DictOfRows_FirstWins(fetched, k - 1)
         IN  IF fetched[k].id \in DOMAIN d THEN d
             ELSE Put(d, fetched[k].id, fetched[k].star_rating)

\* {row[0]: row[1] for row in cursor.fetchall()}: the dict after the first k
\* rows, each row assigning its id's entry
RECURSIVE DictOfRows(_, _)
DictOfRows(fetched, k) ==
    IF k = 0 THEN EmptyDict
    ELSE Put(DictOfRows(fetched, k - 1), fetched[k].id, fetched[k].star_rating)

\* SELECT id, star_rating FROM songs WHERE star_rating > 0, read in rowid
\* order into a dict
ExistingRatings(rows) ==
    LET fetched == OrderByIdx({r \in rows : r.star_rating > 0})
    IN  DictOfRows(fetched, Len(fetched))

\* mutant: the INSERT binds the record's own star_rating
InsertRow_SnapshotRating(rows, song, rating) ==
    LET iv == Get(song, "index")
        idx == IF iv = None
               THEN (IF rows = {} THEN 1 ELSE MaxIdx(rows) + 1)
               ELSE iv[1]
        sr == Get(song, "star_rating")
        row == [idx |-> idx, id |-> Get(song, "id"),
                title |-> Get(song, "title"),
                energy |-> Get(song, "energy"),
                star_rating |-> IF sr = None THEN DefaultRating ELSE sr[1]]
    IN  IF idx \in {r.idx : r \in rows}
        THEN [ok |-> FALSE, rows |-> rows]
        ELSE [ok |-> TRUE, rows |-> rows \cup {row}]

\* one INSERT INTO songs (idx, id, title, ..., star_rating) VALUES (...):
\* a NULL idx takes the next rowid, a used idx violates the primary key
InsertRow(rows, song, rating) ==
    LET iv == Get(song, "index")
        idx == IF iv = None
               THEN (IF rows = {} THEN 1 ELSE MaxIdx(rows) + 1)
               ELSE iv[1]
        row == [idx |-> idx, id |-> Get(song, "id"),
                title |-> Get(song, "title"),
                energy |-> Get(song, "energy"), star_rating |-> rating]
    IN  IF idx \in {r.idx : r \in rows}
        THEN [ok |-> FALSE, rows |-> rows]
        ELSE [ok |-> TRUE, rows |-> rows \cup {row}]

\* mutant: the default for an id without an entry is not 0.0
PreservedRating_WrongDefault(existing_ratings, song, preserve_ratings) ==
    IF preserve_ratings
    THEN GetOr(existing_ratings, Get(song, "id"), MaxRatingValue)
    ELSE DefaultRating

PreservedRating(existing_ratings, song, preserve_ratings) ==
    IF preserve_ratings
    THEN GetOr(existing_ratings, Get(song, "id"), DefaultRating)
    ELSE DefaultRating

\* mutant: the DELETE is missing, the INSERTs add to the committed rows
RECURSIVE InsertSongs_NoDelete(_, _, _, _)
InsertSongs_NoDelete(recs, existing_ratings, preserve_ratings, k) ==
    IF k = 0 THEN [ok |-> TRUE, rows |-> songs]
    ELSE LET prev == InsertSongs_NoDelete(recs, existing_ratings,
                                          preserve_ratings, k - 1)
         IN  IF ~prev.ok THEN prev
             ELSE InsertRow(prev.rows, recs[k],
                      PreservedRating(existing_ratings, recs[k], preserve_ratings))

\* DELETE FROM songs followed by the first k passes of the insert loop, inside
\* the transaction the DELETE opened; stops at the first INSERT that raises
RECURSIVE InsertSongs(_, _, _, _)
InsertSongs(recs, existing_ratings, preserve_ratings, k) ==
    IF k = 0 THEN [ok |-> TRUE, rows |-> {}]
    ELSE LET prev == InsertSongs(recs, existing_ratings, preserve_ratings, k - 1)
         IN  IF ~prev.ok THEN prev
             ELSE InsertRow(prev.rows, recs[k],
                      PreservedRating(existing_ratings, recs[k], preserve_ratings))

Min(a, b) == IF a < b THEN a ELSE b

\* SELECT * FROM songs ORDER BY idx LIMIT limit OFFSET offset
SelectPage(rows, limit, offset) ==
    LET sorted == OrderByIdx(rows)
    IN  SubSeq(sorted, offset + 1, Min(offset + limit, Len(sorted)))

\* SELECT * FROM songs WHERE title = ?
SelectByTitle(rows, title) ==
    OrderByIdx({r \in rows : r.title = Some(title)})

\* UPDATE songs SET star_rating = ? WHERE id = ?
MatchingRows(rows, song_id) == {r \in rows : r.id = Some(song_id)}

UpdateRating(rows, song_id, rating) ==
    {IF r.id = Some(song_id) THEN [r EXCEPT !.star_rating = rating] ELSE r :
        r \in rows}

\* song = dict(row); song['index'] = song.pop('idx')
SongOfRow(r) ==
    [index |-> r.idx, id |-> r.id, title |-> r.title, energy |-> r.energy,
     star_rating |-> r.star_rating]

SongsOfRows(rowSeq) == [n \in 1..Len(rowSeq) |-> SongOfRow(rowSeq[n])]

----------------------------------------------------------------------------
(* Threads, connections and the outcome record.  The field conn of the     *)
(* outcome tells what became of the connection the operation opened:       *)
(* "none" (it opened none), "closed" (conn.close() ran) or "open" (the     *)
(* operation is still running, or it has ended without conn.close()).      *)

Procs == {"p1", "p2"}

IdleLoad ==
    [pc |-> "idle", caller |-> "", path |-> "", preserve_ratings |-> FALSE,
     songs |-> <<>>, existing_ratings |-> EmptyDict, read_failed |-> FALSE,
     before |-> {}, txn |-> {}, intxn |-> FALSE]

NoResult ==
    [op |-> "none", caller |-> "", status |-> "", http |-> 0, count |-> 0,
     rows |-> <<>>, flag |-> FALSE, path |-> "", preserve_ratings |-> FALSE,
     before |-> {}, song_id |-> "", rating |-> 0, returned |-> 0, page |-> 0, limit |-> 0,
     title |-> "", db_file |-> "", conn |-> "none",
     existing_ratings |-> EmptyDict]

\* a connection holds the store's write lock from its first DELETE or UPDATE
\* until it commits or is closed; the store makes other writers wait
WriteLocked == \E p \in Procs : load[p].intxn

\* HTTP status of an endpoint: load_json_data turns every exception into 500
HttpOf(caller, status) ==
    IF caller = "load_json_data"
    THEN (IF status = "ok" THEN 200 ELSE 500)
    ELSE 0

\* load_data opens its connection after the file is parsed and closes it
\* only after the commit
LoadConn(status) ==
    IF status \in {"FileNotFoundError", "JSONDecodeError"} THEN "none"
    ELSE IF status = "ok" THEN "closed"
    ELSE "open"

LoadResult(caller, path, preserve_ratings, status) ==
    [NoResult EXCEPT !.op = "load_data", !.caller = caller, !.path = path,
                     !.preserve_ratings = preserve_ratings, !.status = status,
                     !.http = HttpOf(caller, status),
                     !.conn = LoadConn(status)]

----------------------------------------------------------------------------
(* init_db *)

InitDbEffect(st, now) ==
    LET c == Connect(st, now)
    IN  IF c.tableExists THEN c
        ELSE [c EXCEPT !.tableExists = TRUE, !.dbMtime = now]

InitDb ==
    /\ IF dbState = "corrupt"
       THEN /\ UNCHANGED storeVars
            /\ result' = [NoResult EXCEPT !.op = "init_db",
                                          !.status = "sqlite3.Error",
                                          !.conn = "open"]
       ELSE /\ SetStore(InitDbEffect(Store, clock))
            /\ result' = [NoResult EXCEPT !.op = "init_db", !.status = "ok",
                                          !.conn = "closed"]
    /\ UNCHANGED <<clock, jsonFile, jsonMtime, load, json_data>>

----------------------------------------------------------------------------
(* should_reload_data *)

DbFiles == {DATABASE_URL, "nonexistent.db"}

\* os.path.exists(db_file)
DbExists(db_file, st) == db_file = DATABASE_URL /\ st.dbState # "absent"

\* mutant: a snapshot as old as the store counts as newer
NewerThan_OrEqual(json_mtime, db_mtime) == json_mtime >= db_mtime

\* json_mtime > db_mtime
NewerThan(json_mtime, db_mtime) == json_mtime > db_mtime

should_reload_data(json_file, db_file, st) ==
    IF ~FileExists(json_file) THEN FALSE
    ELSE IF ~DbExists(db_file, st) THEN TRUE
    ELSE IF ~Readable(st) THEN TRUE              \* except: return True
    ELSE IF Cardinality(st.songs) = 0 THEN TRUE  \* count == 0
    ELSE NewerThan(FileMtime(json_file), st.dbMtime)

\* the connection of should_reload_data: conn.close() follows the query
\* inside the try, the except clause returns without it
ReloadProbeConn(json_file, db_file, st) ==
    IF ~FileExists(json_file) \/ ~DbExists(db_file, st) THEN "none"
    ELSE IF ~Readable(st) THEN "open"
    ELSE "closed"

ShouldReload(json_file, db_file) ==
    /\ result' = [NoResult EXCEPT
                     !.op = "should_reload_data", !.status = "ok",
                     !.path = json_file, !.db_file = db_file,
                     !.flag = should_reload_data(json_file, db_file, Store),
                     !.conn = ReloadProbeConn(json_file, db_file, Store)]
    /\ UNCHANGED <<clock, jsonFile, jsonMtime, storeVars, load, json_data>>

----------------------------------------------------------------------------
(* load_data, in three steps of the calling thread:                        *)
(*   LoadStart    open and parse the file, normalize, connect, read the    *)
(*                existing ratings                                         *)
(*   LoadReplace  DELETE FROM songs and the insert loop, in the            *)
(*                transaction the DELETE opens (private to the connection) *)
(*   LoadCommit   conn.commit(), conn.close(), return len(songs)           *)
(* An exception leaves load_data with the connection neither committed nor *)
(* closed; Finalize is the interpreter reclaiming it, which rolls back.    *)

Opened(p, caller, path, preserve_ratings, st) ==
    [pc |-> "opened", caller |-> caller, path |-> path,
     preserve_ratings |-> preserve_ratings,
     songs |-> normalize_json(FileContent(path).data),
     existing_ratings |->
        IF preserve_ratings /\ Readable(st)
        THEN ExistingRatings(st.songs)
        ELSE EmptyDict,                          \* except: pass
     read_failed |-> preserve_ratings /\ ~Readable(st),
     before |-> st.songs, txn |-> {}, intxn |-> FALSE]

\* mutant: the table is cleared before the file is opened and parsed
LoadOpen_DeleteFirst(p, caller, path, preserve_ratings, st) ==
    LET kind == FileContent(path).kind
        c == Connect(st, clock)
    IN  IF kind \in {"absent", "malformed"}
        THEN /\ SetStore([c EXCEPT !.songs = {}])
             /\ UNCHANGED load
             /\ result' = LoadResult(caller, path, preserve_ratings,
                    IF kind = "absent" THEN "FileNotFoundError"
                    ELSE "JSONDecodeError")
        ELSE /\ SetStore(c)
             /\ load' = [load EXCEPT
                   ![p] = Opened(p, caller, path, preserve_ratings, c)]
             /\ result' = LoadResult(caller, path, preserve_ratings, "running")

\* the part of load_data up to the DELETE, run on store state st
LoadOpen(p, caller, path, preserve_ratings, st) ==
    LET kind == FileContent(path).kind
    IN  IF kind = "absent"
        THEN /\ SetStore(st)
             /\ UNCHANGED load
             /\ result' = LoadResult(caller, path, preserve_ratings,
                                     "FileNotFoundError")
        ELSE IF kind = "malformed"
        THEN /\ SetStore(st)
             /\ UNCHANGED load
             /\ result' = LoadResult(caller, path, preserve_ratings,
                                     "JSONDecodeError")
        ELSE LET c == Connect(st, clock)
             IN  /\ SetStore(c)
                 /\ load' = [load EXCEPT
                       ![p] = Opened(p, caller, path, preserve_ratings, c)]
                 /\ result' = LoadResult(caller, path, preserve_ratings,
                                         "running")

\* a direct call load_data(file_path, preserve_ratings)
LoadStart(p, path, preserve_ratings) ==
    /\ load[p].pc = "idle"
    /\ LoadOpen(p, "load_data", path, preserve_ratings, Store)
    /\ UNCHANGED <<clock, jsonFile, jsonMtime, json_data>>

\* mutant: /load leaves preserve_ratings at its default
LoadJsonData_Preserving(p, path) ==
    /\ load[p].pc = "idle"
    /\ LoadOpen(p, "load_json_data", path, TRUE, Store)
    /\ UNCHANGED <<clock, jsonFile, jsonMtime, json_data>>

\* POST /load: load_data(file_path, preserve_ratings=False)
LoadJsonData(p, path) ==
    /\ load[p].pc = "idle"
    /\ LoadOpen(p, "load_json_data", path, FALSE, Store)
    /\ UNCHANGED <<clock, jsonFile, jsonMtime, json_data>>

ReplaceOutcome(l) ==
    InsertSongs(l.songs, l.existing_ratings, l.preserve_ratings, Len(l.songs))

\* what the connection is left as when an INSERT raises
AfterInsertError(l, rows) ==
    [l EXCEPT !.pc = "leaked", !.txn = rows, !.intxn = TRUE]

\* mutant: the connection is in autocommit mode, every statement is visible
\* to other connections as soon as it has run
VisibleDuringReplace_Autocommit(rows, txnRows) == txnRows

\* the committed rows other connections read while the transaction is open
VisibleDuringReplace(rows, txnRows) == rows

LoadReplace(p) ==
    LET l == load[p]
    IN  /\ l.pc = "opened"
        /\ IF ~Readable(Store)
           THEN \* DELETE raises: no such table, or a corrupt file
                /\ load' = [load EXCEPT ![p] = [l EXCEPT !.pc = "leaked"]]
                /\ UNCHANGED storeVars
                /\ result' = LoadResult(l.caller, l.path, l.preserve_ratings,
                                        "sqlite3.Error")
           ELSE /\ ~WriteLocked
                /\ LET out == ReplaceOutcome(l)
                   IN  /\ songs' = VisibleDuringReplace(songs, out.rows)
                       /\ UNCHANGED <<dbState, tableExists, dbMtime>>
                       /\ IF out.ok
                          THEN /\ load' = [load EXCEPT ![p] =
                                     [l EXCEPT !.pc = "written",
                                               !.txn = out.rows,
                                               !.intxn = TRUE]]
                               /\ result' = LoadResult(l.caller, l.path,
                                               l.preserve_ratings, "running")
                          ELSE /\ load' = [load EXCEPT ![p] =
                                     AfterInsertError(l, out.rows)]
                               /\ result' = LoadResult(l.caller, l.path,
                                               l.preserve_ratings,
                                               "sqlite3.Error")
        /\ UNCHANGED <<clock, jsonFile, jsonMtime, json_data>>

\* the DELETE of thread p finds the write lock held by another connection
\* until the connection's busy timeout ends: sqlite3.OperationalError
\* (database is locked), raised before any transaction is open
LoadBusy(p) ==
    LET l == load[p]
    IN  /\ l.pc = "opened"
        /\ Readable(Store)
        /\ \E q \in Procs \ {p} : load[q].intxn
        /\ load' = [load EXCEPT ![p] = [l EXCEPT !.pc = "leaked"]]
        /\ UNCHANGED storeVars
        /\ result' = LoadResult(l.caller, l.path, l.preserve_ratings,
                                "sqlite3.Error")
        /\ UNCHANGED <<clock, jsonFile, jsonMtime, json_data>>

LoadCommit(p) ==
    LET l == load[p]
    IN  /\ l.pc = "written"
        /\ SetStore(Commit(Store, l.txn, clock))
        /\ load' = [load EXCEPT ![p] = IdleLoad]
        /\ result' = [LoadResult(l.caller, l.path, l.preserve_ratings, "ok")
                        EXCEPT !.count = Len(l.songs), !.before = l.before]
        /\ UNCHANGED <<clock, jsonFile, jsonMtime, json_data>>

\* the rows the store holds once an uncommitted connection is closed
RolledBack(rows, txnRows) == rows

Finalize(p) ==
    /\ load[p].pc = "leaked"
    /\ songs' = RolledBack(songs, load[p].txn)
    /\ UNCHANGED <<dbState, tableExists, dbMtime>>
    /\ load' = [load EXCEPT ![p] = IdleLoad]
    /\ result' = [NoResult EXCEPT !.op = "finalize", !.conn = "closed"]
    /\ UNCHANGED <<clock, jsonFile, jsonMtime, json_data>>

----------------------------------------------------------------------------
(* lifespan: the startup sequence *)

DefaultPreserveRatings == TRUE

Lifespan(p) ==
    /\ load[p].pc = "idle"
    /\ IF dbState = "corrupt"
       THEN \* init_db raises and startup fails
            /\ UNCHANGED <<storeVars, load>>
            /\ result' = [NoResult EXCEPT !.op = "lifespan",
                                          !.status = "sqlite3.Error",
                                          !.conn = "open"]
       ELSE LET st == InitDbEffect(Store, clock)
            IN  IF should_reload_data(DEFAULT_JSON_FILE, DATABASE_URL, st)
                THEN LoadOpen(p, "lifespan", DEFAULT_JSON_FILE,
                              DefaultPreserveRatings, st)
                ELSE /\ SetStore(st)
                     /\ UNCHANGED load
                     /\ result' = [NoResult EXCEPT
                                      !.op = "lifespan", !.status = "existing",
                                      !.count = Cardinality(st.songs),
                                      !.conn = "closed"]
    /\ UNCHANGED <<clock, jsonFile, jsonMtime, json_data>>

----------------------------------------------------------------------------
(* The query surface *)

\* mutant: pages counted from 0
Offset_FromZero(page, limit) == page * limit

\* offset = (page - 1) * limit
Offset(page, limit) == (page - 1) * limit

GetAllSongs(page, limit) ==
    LET c == Connect(Store, clock)
    IN  /\ SetStore(c)
        /\ IF ~Readable(c)
           THEN result' = [NoResult EXCEPT !.op = "get_all_songs",
                              !.status = "sqlite3.Error", !.http = 500,
                              !.page = page, !.limit = limit,
                              !.conn = "open"]
           ELSE result' = [NoResult EXCEPT !.op = "get_all_songs",
                              !.status = "ok", !.http = 200,
                              !.conn = "closed",
                              !.page = page, !.limit = limit,
                              !.rows = SongsOfRows(
                                 SelectPage(c.songs, limit, Offset(page, limit)))]
        /\ UNCHANGED <<clock, jsonFile, jsonMtime, load, json_data>>

SearchByTitle(title) ==
    LET c == Connect(Store, clock)
    IN  /\ SetStore(c)
        /\ IF ~Readable(c)
           THEN result' = [NoResult EXCEPT !.op = "search_by_title",
                              !.status = "sqlite3.Error", !.http = 500,
                              !.title = title, !.conn = "open"]
           ELSE result' = [NoResult EXCEPT !.op = "search_by_title",
                              !.status = "ok", !.http = 200, !.title = title,
                              !.conn = "closed",
                              !.rows = SongsOfRows(SelectByTitle(c.songs, title))]
        /\ UNCHANGED <<clock, jsonFile, jsonMtime, load, json_data>>

\* mutant: the upper bound is off by one
ValidRating_UpTo6(rating) == MinRating <= rating /\ rating <= MaxRatingValue + 1

\* 0 <= rating.rating <= 5
ValidRating(rating) == MinRating <= rating /\ rating <= MaxRatingValue

\* rate_song checks the range before it connects, closes on 404 and after
\* the commit, and has no close on the path of an UPDATE that raises
RateConn(status) ==
    IF status = "invalid_rating" THEN "none"
    ELSE IF status = "sqlite3.Error" THEN "open"
    ELSE "closed"

RateResult(song_id, rating, status, http) ==
    [NoResult EXCEPT !.op = "rate_song", !.song_id = song_id,
                     !.rating = rating, !.status = status, !.http = http,
                     !.conn = RateConn(status)]

\* mutant: conn.commit() is missing, conn.close() drops the UPDATE
AfterUpdate_NoCommit(c, song_id, rating, now) == c

\* the store after the UPDATE, with rowcount rows matched
AfterUpdate(c, song_id, rating, now) ==
    IF MatchingRows(c.songs, song_id) = {}
    THEN c                                        \* conn.close() without commit
    ELSE Commit(c, UpdateRating(c.songs, song_id, rating), now)

RateSong(song_id, rating) ==
    /\ IF ~ValidRating(rating)
       THEN /\ UNCHANGED storeVars
            /\ result' = RateResult(song_id, rating, "invalid_rating", 400)
       ELSE LET c == Connect(Store, clock)
            IN  IF ~Readable(c)
                THEN /\ SetStore(c)
                     /\ result' = RateResult(song_id, rating,
                                             "sqlite3.Error", 500)
                ELSE /\ ~WriteLocked
                     /\ SetStore(AfterUpdate(c, song_id, rating, clock))
                     /\ result' =
                          IF MatchingRows(c.songs, song_id) = {}
                          THEN RateResult(song_id, rating, "not_found", 404)
                          ELSE [RateResult(song_id, rating, "ok", 200)
                                  EXCEPT !.returned = rating]
    /\ UNCHANGED <<clock, jsonFile, jsonMtime, load, json_data>>

----------------------------------------------------------------------------
(* The environment *)

Tick ==
    /\ clock < MaxClock
    /\ clock' = clock + 1
    /\ result' = [NoResult EXCEPT !.op = "env"]
    /\ UNCHANGED <<jsonFile, jsonMtime, storeVars, load, json_data>>

\* the default snapshot file is written, replaced or removed
WriteSnapshot(fixture) ==
    /\ jsonFile' = fixture
    /\ jsonMtime' = clock
    /\ result' = [NoResult EXCEPT !.op = "env"]
    /\ UNCHANGED <<clock, storeVars, load, json_data>>

----------------------------------------------------------------------------
(* Specifications *)

Pages == MinPage..MaxPage
Limits == (MinLimit..MaxLimit) \cup {LimitCap}
Titles == {"X", "Z"}
SongIds == {"a", "b", "zz"}
RatingInputs == {-1, 0, 3, 5, 6}
MainProcs == {"p1"}
Paths == (Fixtures \ {"ab.json"}) \cup {DEFAULT_JSON_FILE}

Init ==
    /\ clock = 0
    /\ jsonFile = "ab.json"
    /\ jsonMtime = 0
    /\ dbState \in {"absent", "corrupt"}
    /\ tableExists = FALSE
    /\ songs = {}
    /\ dbMtime = 0
    /\ load = [p \in Procs |-> IdleLoad]
    /\ result = NoResult
    /\ json_data = <<>>

Next ==
    \/ InitDb
    \/ \E p \in MainProcs, path \in Paths, preserve_ratings \in BOOLEAN :
          LoadStart(p, path, preserve_ratings)
    \/ \E p \in MainProcs, path \in Paths : LoadJsonData(p, path)
    \/ \E p \in MainProcs : LoadReplace(p)
    \/ \E p \in MainProcs : LoadCommit(p)
    \/ \E p \in MainProcs : Finalize(p)
    \/ \E page \in Pages, limit \in Limits : GetAllSongs(page, limit)
    \/ \E title \in Titles : SearchByTitle(title)
    \/ \E song_id \in SongIds, rating \in RatingInputs : RateSong(song_id, rating)

Spec == Init /\ [][Next]_vars

----------------------------------------------------------------------------
(* SpecStartup: startups, manual reloads and ratings while time passes and *)
(* the default snapshot file is rewritten or removed                       *)

StartupFixtures == {"missing.json", "bad.json", "empty.json", "ab.json"}
StartupJsonFiles == {DEFAULT_JSON_FILE, "missing.json", "rev.json"}
StartupSongIds == {"a", "zz"}
StartupRatings == {3}

NextStartup ==
    \/ Tick
    \/ \E fixture \in StartupFixtures : WriteSnapshot(fixture)
    \/ \E json_file \in StartupJsonFiles, db_file \in DbFiles :
          ShouldReload(json_file, db_file)
    \/ \E p \in MainProcs : Lifespan(p)
    \/ \E p \in MainProcs : LoadJsonData(p, DEFAULT_JSON_FILE)
    \/ \E p \in MainProcs : LoadReplace(p)
    \/ \E p \in MainProcs : LoadCommit(p)
    \/ \E p \in MainProcs : Finalize(p)
    \/ \E song_id \in StartupSongIds, rating \in StartupRatings :
          RateSong(song_id, rating)

SpecStartup == Init /\ [][NextStartup]_vars

----------------------------------------------------------------------------
(* SpecNormalize: normalize_json applied to every document of up to        *)
(* MaxAttrs attributes over the keys "0", "1" and "01"                     *)

AttrNames == {"id", "title", "index", "star_rating"}
KeyStrs == {"0", "1", "01"}

\* the value a document holds for an attribute at a key; null for one id
CellValue(attr, key) ==
    CASE attr = "id" ->
            (IF key = "0" THEN Some("a")
             ELSE IF key = "1" THEN None ELSE Some("b"))
      [] attr = "title" -> (IF key = "0" THEN Some("X") ELSE Some("Y"))
      [] attr = "index" -> (IF key = "0" THEN Some(7) ELSE Some(0))
      [] attr = "star_rating" -> (IF key = "0" THEN Some(4) ELSE Some(9))

Columns(attr) ==
    { [key \in keys |-> CellValue(attr, key)] : keys \in SUBSET KeyStrs }

AttrsOf(doc) == {doc[k].attr : k \in 1..Len(doc)}

RECURSIVE Documents(_)
Documents(n) ==
    IF n = 0 THEN {<<>>}
    ELSE LET shorter == Documents(n - 1)
         IN  shorter \cup
             UNION { UNION { { Append(doc, [attr |-> attr, values |-> col]) :
                                  col \in Columns(attr) } :
                             attr \in AttrNames \ AttrsOf(doc) } :
                     doc \in {d \in shorter : Len(d) = n - 1} }

ChooseDocument(doc) ==
    /\ json_data = <<>>
    /\ json_data' = doc
    /\ result' = [NoResult EXCEPT !.op = "env"]
    /\ UNCHANGED <<clock, jsonFile, jsonMtime, storeVars, load>>

Normalize ==
    /\ result' = [NoResult EXCEPT !.op = "normalize_json", !.status = "ok",
                                  !.rows = normalize_json(json_data)]
    /\ UNCHANGED <<clock, jsonFile, jsonMtime, storeVars, load, json_data>>

NextNormalize ==
    \/ \E doc \in Documents(MaxAttrs) : ChooseDocument(doc)
    \/ Normalize

SpecNormalize == Init /\ [][NextNormalize]_vars

----------------------------------------------------------------------------
(* SpecRestart: the service is started again and again, between startups   *)
(* it serves reads and ratings, time passes and the default snapshot file  *)
(* is rewritten or removed                                                 *)

RestartFixtures ==
    {"missing.json", "bad.json", "empty.json", "ab.json", "dupidx.json"}
RestartSongIds == {"a"}
RestartRatings == {3}

NextRestart ==
    \/ Tick
    \/ \E fixture \in RestartFixtures : WriteSnapshot(fixture)
    \/ InitDb
    \/ ShouldReload(DEFAULT_JSON_FILE, DATABASE_URL)
    \/ \E p \in MainProcs : Lifespan(p)
    \/ \E p \in MainProcs : LoadReplace(p)
    \/ \E p \in MainProcs : LoadCommit(p)
    \/ \E p \in MainProcs : Finalize(p)
    \/ GetAllSongs(MinPage, LimitCap)
    \/ SearchByTitle("X")
    \/ \E song_id \in RestartSongIds, rating \in RestartRatings :
          RateSong(song_id, rating)

SpecRestart == Init /\ [][NextRestart]_vars

----------------------------------------------------------------------------
(* SpecConcurrent: two threads run load_data at the same time, next to     *)
(* init_db and rate_song; the store lets one connection write at a time    *)

ConcurrentPaths == {DEFAULT_JSON_FILE, "rev.json", "dupidx.json"}
ConcurrentSongIds == {"a"}
ConcurrentRatings == {3}

NextConcurrent ==
    \/ InitDb
    \/ \E p \in Procs, path \in ConcurrentPaths, preserve_ratings \in BOOLEAN :
          LoadStart(p, path, preserve_ratings)
    \/ \E p \in Procs : LoadReplace(p)
    \/ \E p \in Procs : LoadBusy(p)
    \/ \E p \in Procs : LoadCommit(p)
    \/ \E p \in Procs : Finalize(p)
    \/ \E song_id \in ConcurrentSongIds, rating \in ConcurrentRatings :
          RateSong(song_id, rating)

SpecConcurrent == Init /\ [][NextConcurrent]_vars

----------------------------------------------------------------------------
(* SpecDuplicates: snapshots and tables in which several rows share an id. *)
(* The overlay construction of load_data is applied to every table of      *)
(* three rows over two ids (the first row's id is a), as a function of the *)
(* rows the SELECT returns.                                                *)

StoredIds == {"a", "b"}
StoredRatings == {0, 3, 5}

StoredRow(idx, id, rating) ==
    [idx |-> idx, id |-> Some(id), title |-> Some("X"), energy |-> None,
     star_rating |-> rating]

StoredTables ==
    { {StoredRow(0, "a", r0), StoredRow(1, i1, r1), StoredRow(2, i2, r2)} :
         i1 \in StoredIds, i2 \in StoredIds,
         r0 \in StoredRatings, r1 \in StoredRatings, r2 \in StoredRatings }

\* the SELECT and the dict comprehension of load_data on the rows given
ReadExistingRatings(rows) ==
    /\ result' = [NoResult EXCEPT !.op = "existing_ratings", !.status = "ok",
                                  !.before = rows,
                                  !.existing_ratings = ExistingRatings(rows)]
    /\ UNCHANGED <<clock, jsonFile, jsonMtime, storeVars, load, json_data>>

DuplicatePaths == {"dupid.json"}
DuplicateSongIds == {"a", "zz"}
DuplicateRatings == {0, 4}

NextDuplicates ==
    \/ InitDb
    \/ \E p \in MainProcs, path \in DuplicatePaths, preserve_ratings \in BOOLEAN :
          LoadStart(p, path, preserve_ratings)
    \/ \E p \in MainProcs : LoadReplace(p)
    \/ \E p \in MainProcs : LoadCommit(p)
    \/ \E p \in MainProcs : Finalize(p)
    \/ \E song_id \in DuplicateSongIds, rating \in DuplicateRatings :
          RateSong(song_id, rating)
    \/ \E rows \in StoredTables : ReadExistingRatings(rows)

SpecDuplicates == Init /\ [][NextDuplicates]_vars

----------------------------------------------------------------------------
(* Steps of load_data, recognised by the calling thread's position *)

\* load_data of thread p commits and returns
CommitStep(p) == load[p].pc = "written" /\ load'[p].pc = "idle"

\* load_data of thread p raises in its DELETE or in an INSERT
FailStep(p) == load[p].pc = "opened" /\ load'[p].pc = "leaked"

\* the DELETE and all INSERTs of thread p have run, uncommitted
WriteStep(p) == load[p].pc = "opened" /\ load'[p].pc = "written"

\* the connection load_data of thread p left open is reclaimed
FinalizeStep(p) == load[p].pc = "leaked" /\ load'[p].pc = "idle"

\* a call of load_data takes its first step (and may fail in it)
LoadCallStep ==
    /\ result'.op = "load_data"
    /\ \A p \in Procs : load[p].pc # "idle" => load'[p] = load[p]

----------------------------------------------------------------------------
(* C1 *)

\* C1 as stated: every load_data that succeeds leaves a table that is not
\* empty, and every load_data that fails in its delete/insert phase leaves
\* the rows that were there before.
C1_AsStated ==
    [][\A p \in Procs :
          /\ CommitStep(p) => songs' # {}
          /\ FailStep(p) \/ FinalizeStep(p) => songs' = songs]_vars

\* C1, amended: a load_data that succeeds leaves exactly one row per
\* normalized record, so the table is empty afterwards only if the snapshot
\* normalizes to zero records; until the commit, and after a failure in the
\* delete/insert phase (also once the abandoned connection is reclaimed),
\* the committed rows and the table's existence are what they were before.
C1_AtomicReplace ==
    [][\A p \in Procs :
          /\ CommitStep(p) =>
                /\ Cardinality(songs') = Len(load[p].songs)
                /\ (Len(load[p].songs) > 0 => songs' # {})
                /\ \A r \in songs' :
                      \E n \in 1..Len(load[p].songs) :
                         /\ r.id = Get(load[p].songs[n], "id")
                         /\ r.title = Get(load[p].songs[n], "title")
          /\ WriteStep(p) \/ FailStep(p) \/ FinalizeStep(p) =>
                songs' = songs /\ tableExists' = tableExists]_vars

\* an INSERT has failed after an earlier one succeeded, over a table with rows
C1_Witness ==
    \E p \in Procs :
       /\ load[p].pc = "leaked"
       /\ load[p].txn # {}
       /\ songs # {}
       /\ songs # load[p].txn

----------------------------------------------------------------------------
(* C2 *)

DistinctNonNullIds(recs) ==
    \A m, n \in 1..Len(recs) :
       /\ Get(recs[n], "id") # None
       /\ (m # n => Get(recs[m], "id") # Get(recs[n], "id"))

\* the load_data that has just returned ran with preserve_ratings=True on a
\* table that was, when it was called, what load_data(snapshot, False)
\* followed by rate_song(x, r) leaves
RoundTripCase(x, r) ==
    /\ result.op = "load_data"
    /\ result.status = "ok"
    /\ result.preserve_ratings
    /\ LET recs == normalize_json(FileContent(result.path).data)
           fresh == InsertSongs(recs, EmptyDict, FALSE, Len(recs))
       IN  /\ DistinctNonNullIds(recs)
           /\ fresh.ok
           /\ MatchingRows(fresh.rows, x) # {}
           /\ result.before = UpdateRating(fresh.rows, x, r)

\* C2: load_data(snapshot, preserve_ratings=False); rate_song(x, r) with
\* 0 < r <= 5; load_data(snapshot, preserve_ratings=True), for a snapshot with
\* distinct non-null ids, ends with one row per record, the row of id x rated
\* r and every other row rated 0.0.
C2_RoundTrip ==
    \A x \in SongIds, r \in 1..5 :
       RoundTripCase(x, r) =>
          /\ Cardinality(songs) = Cardinality(result.before)
          /\ \A row \in songs :
                row.star_rating = IF row.id = Some(x) THEN r ELSE 0

C2_Witness ==
    /\ RoundTripCase("b", 3)
    /\ \E row \in songs : row.id = Some("b") /\ row.star_rating = 3
    /\ \E row \in songs : row.id = Some("a") /\ row.star_rating = 0

----------------------------------------------------------------------------
(* C3 *)

\* C3: after a load_data that succeeded, a row carries a rating other than
\* 0.0 only if the load ran with preserve_ratings=True and a row of the same
\* id carried that rating when load_data was called; with
\* preserve_ratings=False, and for an id that was not in the table then, the
\* rating is 0.0.
C3_RatingsSurviveOnlyPreserved ==
    (result.op = "load_data" /\ result.status = "ok") =>
       \A row \in songs :
          /\ row.star_rating # 0 =>
                /\ result.preserve_ratings
                /\ \E b \in result.before :
                      b.id = row.id /\ b.star_rating = row.star_rating
          /\ ~result.preserve_ratings => row.star_rating = 0
          /\ (\A b \in result.before : b.id # row.id) => row.star_rating = 0

\* a preserving load kept one rating and dropped another whose id is not in
\* the new snapshot
C3_Witness ==
    /\ result.op = "load_data"
    /\ result.status = "ok"
    /\ result.preserve_ratings
    /\ \E b \in result.before :
          b.star_rating > 0 /\ \A row \in songs : row.id # b.id
    /\ \E row \in songs : row.star_rating > 0

----------------------------------------------------------------------------
(* C5 *)

\* C5: a rate_song whose rating is outside [0,5] answers 400 and touches
\* neither the store file nor any row, whether or not the id exists; a
\* rate_song whose rating is inside [0,5], on a readable songs table with no
\* row of that id, answers 404 and leaves the store as it was.
C5_RejectedRatingChangesNothing ==
    [][result'.op = "rate_song" =>
          /\ ~(0 <= result'.rating /\ result'.rating <= 5) =>
                /\ result'.http = 400
                /\ result'.status = "invalid_rating"
                /\ UNCHANGED storeVars
          /\ ( /\ 0 <= result'.rating /\ result'.rating <= 5
               /\ Readable(Store)
               /\ \A r \in songs : r.id # Some(result'.song_id) ) =>
                /\ result'.http = 404
                /\ result'.status = "not_found"
                /\ UNCHANGED storeVars]_vars

\* an out-of-range rating was refused for an id that has a rated row
C5_Witness ==
    /\ result.op = "rate_song"
    /\ result.http = 400
    /\ result.rating = 6
    /\ \E r \in songs : r.id = Some(result.song_id) /\ r.star_rating = 3

\* the not-found half of C5 happens as well
C5_NotFoundReached ==
    /\ result.op = "rate_song"
    /\ result.http = 404
    /\ \E r \in songs : r.star_rating > 0

----------------------------------------------------------------------------
(* C6 *)

\* C6: a load_data call whose path does not resolve raises FileNotFoundError,
\* one whose file does not parse raises JSONDecodeError, and in both cases
\* the store (its file, the table, every row and rating) is what it was.
C6_UnreadableSnapshotChangesNothing ==
    [][LoadCallStep =>
          /\ FileContent(result'.path).kind = "absent" =>
                /\ result'.status = "FileNotFoundError"
                /\ UNCHANGED <<storeVars, load>>
          /\ FileContent(result'.path).kind = "malformed" =>
                /\ result'.status = "JSONDecodeError"
                /\ UNCHANGED <<storeVars, load>>]_vars

\* a malformed snapshot was refused over a table that holds a rating
C6_Witness ==
    /\ result.op = "load_data"
    /\ result.status = "JSONDecodeError"
    /\ \E r \in songs : r.star_rating > 0

C6_NotFoundReached ==
    /\ result.op = "load_data"
    /\ result.status = "FileNotFoundError"
    /\ \E r \in songs : r.star_rating > 0

----------------------------------------------------------------------------
(* C9 *)

\* the row r with its rating replaced
Rerated(r, rating) ==
    [idx |-> r.idx, id |-> r.id, title |-> r.title, energy |-> r.energy,
     star_rating |-> rating]

\* C9: a rate_song with 0 <= r <= 5 on a readable table with a row of that id
\* answers 200 and returns r; the committed table is the old one with r on the
\* rows of that id and nothing else changed; every read (get_all_songs,
\* search_by_title) returns the committed rating of each row it returns, and
\* the rating of a row changes only in a rate_song on its id or in a
\* load_data.
C9_RatingCommitted ==
    [][/\ ( /\ result'.op = "rate_song"
            /\ 0 <= result'.rating /\ result'.rating <= 5
            /\ Readable(Store)
            /\ \E r \in songs : r.id = Some(result'.song_id) ) =>
             /\ result'.http = 200
             /\ result'.returned = result'.rating
             /\ songs' = { IF r.id = Some(result'.song_id)
                           THEN Rerated(r, result'.rating) ELSE r : r \in songs }
             /\ tableExists' = tableExists /\ dbState' = dbState
       /\ ( /\ result'.op \in {"get_all_songs", "search_by_title"}
            /\ result'.http = 200 ) =>
             \A n \in 1..Len(result'.rows) :
                \E r \in songs :
                   /\ r.idx = result'.rows[n].index
                   /\ r.id = result'.rows[n].id
                   /\ r.star_rating = result'.rows[n].star_rating
       /\ \A r \in songs :
             (\A r2 \in songs' : r2.idx = r.idx => r2.star_rating # r.star_rating) =>
                \/ result'.op = "rate_song" /\ r.id = Some(result'.song_id)
                \/ result'.op = "load_data"]_vars

\* a read returns the rating 3 that a rate_song stored, next to an unrated song
C9_Witness ==
    /\ result.op = "get_all_songs"
    /\ result.http = 200
    /\ \E n \in 1..Len(result.rows) : result.rows[n].star_rating = 3
    /\ \E n \in 1..Len(result.rows) : result.rows[n].star_rating = 0
    /\ \E r \in songs : r.star_rating = 3

----------------------------------------------------------------------------
(* C10 *)

\* the number of rows that precede r in index order
Rank(rows, r) == Cardinality({s \in rows : s.idx < r.idx})

RECURSIVE ConcatPages(_, _, _)
ConcatPages(rows, limit, k) ==
    IF k = 0 THEN <<>>
    ELSE ConcatPages(rows, limit, k - 1)
            \o SelectPage(rows, limit, Offset(k, limit))

\* C10: get_all_songs(page, limit) returns, in ascending index order, exactly
\* the rows whose rank in index order lies in [(page-1)*limit,
\* (page-1)*limit + limit), hence no row and no error when (page-1)*limit is
\* at least the number of rows; for every limit, the pages 1, 2, ... taken
\* together list every row of the table once, in index order.
C10_Pagination ==
    /\ (result.op = "get_all_songs" /\ result.http = 200) =>
          LET first == (result.page - 1) * result.limit
              want == {r \in songs : /\ Rank(songs, r) >= first
                                     /\ Rank(songs, r) < first + result.limit}
          IN  /\ Len(result.rows) = Cardinality(want)
              /\ \A n \in 1..Len(result.rows) :
                    \E r \in want :
                       /\ Rank(songs, r) = first + n - 1
                       /\ result.rows[n] = SongOfRow(r)
              /\ (first >= Cardinality(songs) => result.rows = <<>>)
    /\ Readable(Store) =>
          \A limit \in Limits :
             LET all == ConcatPages(songs, limit, Cardinality(songs) + 1)
             IN  /\ Len(all) = Cardinality(songs)
                 /\ \A n \in 1..Len(all) :
                       all[n] \in songs /\ Rank(songs, all[n]) = n - 1

\* the second page of size 1 of a table whose rows were inserted in
\* descending index order is the row with the larger index
C10_Witness ==
    /\ result.op = "get_all_songs"
    /\ result.http = 200
    /\ result.page = 2
    /\ result.limit = 1
    /\ Len(result.rows) = 1
    /\ result.rows[1].index = 5

C10_EmptyPageReached ==
    /\ result.op = "get_all_songs"
    /\ result.http = 200
    /\ songs # {}
    /\ result.rows = <<>>

----------------------------------------------------------------------------
(* C4 *)

\* C4: should_reload_data(json_file, db_file) is False when the snapshot file
\* does not exist; otherwise True when the store file does not exist;
\* otherwise True when the songs table cannot be read or has no rows;
\* otherwise True exactly when the snapshot's modification time is strictly
\* greater than the store's.
C4_ReloadDecision ==
    result.op = "should_reload_data" =>
       LET snapshotExists == FileContent(result.path).kind # "absent"
           snapshotMtime == IF result.path = DEFAULT_JSON_FILE
                            THEN jsonMtime ELSE 0
           storeExists == result.db_file = DATABASE_URL /\ dbState # "absent"
           unreadable == dbState = "corrupt" \/ ~tableExists
       IN  result.flag =
              IF ~snapshotExists THEN FALSE
              ELSE IF ~storeExists THEN TRUE
              ELSE IF unreadable \/ songs = {} THEN TRUE
              ELSE snapshotMtime > dbMtime

\* the snapshot and a store with rows were last written at the same time,
\* later than 0, and the answer is False
C4_Witness ==
    /\ result.op = "should_reload_data"
    /\ result.path = DEFAULT_JSON_FILE
    /\ result.db_file = DATABASE_URL
    /\ FileContent(DEFAULT_JSON_FILE).kind # "absent"
    /\ songs # {}
    /\ jsonMtime = dbMtime
    /\ dbMtime > 0
    /\ result.flag = FALSE

C4_NewerReached ==
    /\ result.op = "should_reload_data"
    /\ songs # {}
    /\ jsonMtime > dbMtime
    /\ result.flag = TRUE

C4_OlderReached ==
    /\ result.op = "should_reload_data"
    /\ result.path = DEFAULT_JSON_FILE
    /\ FileContent(DEFAULT_JSON_FILE).kind # "absent"
    /\ songs # {}
    /\ jsonMtime < dbMtime
    /\ result.flag = FALSE

C4_CorruptReached ==
    /\ result.op = "should_reload_data"
    /\ result.db_file = DATABASE_URL
    /\ dbState = "corrupt"
    /\ result.flag = TRUE

C4_NoTableReached ==
    /\ result.op = "should_reload_data"
    /\ result.db_file = DATABASE_URL
    /\ dbState = "ok"
    /\ ~tableExists
    /\ result.flag = TRUE

----------------------------------------------------------------------------
(* C7 *)

\* the record count the claim names: the entries of the first attribute
FirstAttrEntries(json) ==
    IF json = <<>> THEN 0 ELSE Cardinality(DOMAIN json[1].values)

\* C7: normalize_json returns one record per entry of the document's first
\* attribute (none for an empty or absent document); record i has index = i,
\* has every attribute of the document as a field, holding the attribute's
\* value at key str(i) or None when the key is absent, and has a star_rating
\* field, 0.0 when the document has no star_rating attribute.
C7_NormalizedRecords ==
    result.op = "normalize_json" =>
       /\ Len(result.rows) = FirstAttrEntries(json_data)
       /\ \A i \in 0..(FirstAttrEntries(json_data) - 1) :
             LET rec == result.rows[i + 1]
             IN  /\ "index" \in DOMAIN rec
                 /\ rec["index"] = Some(i)
                 /\ \A k \in 1..Len(json_data) :
                       /\ json_data[k].attr \in DOMAIN rec
                       /\ rec[json_data[k].attr] =
                             IF Str(i) \in DOMAIN json_data[k].values
                             THEN json_data[k].values[Str(i)]
                             ELSE None
                 /\ "star_rating" \in DOMAIN rec
                 /\ ("star_rating" \notin AttrsOf(json_data) =>
                        rec["star_rating"] = Some(0))

\* the same statement for the documents that have no attribute named index
C7_WithoutIndexAttribute ==
    "index" \notin AttrsOf(json_data) => C7_NormalizedRecords

----------------------------------------------------------------------------
(* C8 *)

\* C8: load_json_data always calls load_data with preserve_ratings=False, and
\* after it succeeds every row is rated 0.0 whatever was rated before; the
\* reload of lifespan calls load_data with preserve_ratings=True, and after it
\* succeeds a row is rated what a row of the same id was rated before, and
\* 0.0 if there was none.
C8_ManualResetsStartupPreserves ==
    /\ (result.op = "load_data" /\ result.caller = "load_json_data") =>
          /\ ~result.preserve_ratings
          /\ result.status = "ok" => \A row \in songs : row.star_rating = 0
    /\ (result.op = "load_data" /\ result.caller = "lifespan") =>
          /\ result.preserve_ratings
          /\ result.status = "ok" =>
                \A row \in songs :
                   LET rated == {b \in result.before :
                                    b.id = row.id /\ b.star_rating > 0}
                   IN  IF rated = {} THEN row.star_rating = 0
                       ELSE row.star_rating \in {b.star_rating : b \in rated}

\* a manual reload has reset a table that held a rating
C8_Witness ==
    /\ result.op = "load_data"
    /\ result.caller = "load_json_data"
    /\ result.status = "ok"
    /\ songs # {}
    /\ \E b \in result.before : b.star_rating > 0

\* a startup reload has carried a rating forward
C8_StartupReached ==
    /\ result.op = "load_data"
    /\ result.caller = "lifespan"
    /\ result.status = "ok"
    /\ \E row \in songs : row.star_rating = 3
    /\ \E row \in songs : row.star_rating = 0

----------------------------------------------------------------------------
(* C11 *)

\* the records the snapshot at path normalizes to
RecordsOf(path) == normalize_json(FileContent(path).data)

\* C11: after every load_data that succeeded, with N the number of records
\* the snapshot normalizes to, the table holds N rows, one per record (the
\* record's id and title), their keys are exactly 0..N-1, and load_data
\* returned N.
C11_DenseRowsAndCount ==
    (result.op = "load_data" /\ result.status = "ok") =>
       LET recs == RecordsOf(result.path)
           N == Len(recs)
       IN  /\ Cardinality(songs) = N
           /\ \A n \in 1..N :
                 \E r \in songs : /\ r.id = Get(recs[n], "id")
                                  /\ r.title = Get(recs[n], "title")
           /\ {r.idx : r \in songs} = 0..(N - 1)
           /\ result.count = N

\* the same statement for the snapshots that have no attribute named index
C11_WithoutIndexAttribute ==
    ( /\ result.op = "load_data"
      /\ "index" \notin AttrsOf(FileContent(result.path).data) )
       => C11_DenseRowsAndCount

\* a load of a snapshot with an index column has succeeded over other rows
C11_IndexColumnLoaded ==
    /\ result.op = "load_data"
    /\ result.status = "ok"
    /\ result.before # {}
    /\ {r.idx : r \in songs} = {2, 5}

----------------------------------------------------------------------------
(* C12 *)

\* C12: every operation that opens a store connection has released it when
\* it returns or raises: no operation ends with its connection open, and no
\* connection of a load_data that raised is left for later.
C12_ConnectionsReleased ==
    /\ result.status # "running" => result.conn # "open"
    /\ \A p \in Procs : load[p].pc # "leaked"

\* the same statement for the operations that end without a store error
C12_ReleasedWithoutStoreError ==
    result.status \in {"ok", "not_found", "invalid_rating", "existing",
                       "FileNotFoundError", "JSONDecodeError"}
       => result.conn \in {"none", "closed"}

\* a load_data has raised in an INSERT and its connection, with the DELETE
\* and an INSERT uncommitted, holds the write lock
C12_LeakReached ==
    /\ result.op = "load_data"
    /\ result.status = "sqlite3.Error"
    /\ result.conn = "open"
    /\ WriteLocked

----------------------------------------------------------------------------
(* C13 *)

\* C13: a load_data with preserve_ratings=True whose read of the existing
\* ratings failed goes on with an empty overlay and completes: its DELETE and
\* INSERTs do not raise, and it commits one row per record, each rated 0.0.
C13_ReadFailureNotFatal ==
    [][\A p \in Procs :
          (load[p].preserve_ratings /\ load[p].read_failed) =>
             /\ load[p].existing_ratings = EmptyDict
             /\ ~FailStep(p)
             /\ CommitStep(p) =>
                   /\ Cardinality(songs') = Len(load[p].songs)
                   /\ \A r \in songs' : r.star_rating = 0]_vars

\* the part of C13 the except clause provides: the failed read leaves the
\* overlay empty, and a call that does reach its commit writes only 0.0
C13_OverlayEmptyOnReadFailure ==
    [][\A p \in Procs :
          (load[p].preserve_ratings /\ load[p].read_failed) =>
             /\ load[p].existing_ratings = EmptyDict
             /\ CommitStep(p) => \A r \in songs' : r.star_rating = 0]_vars

\* the DELETE raises for the reason the read failed: the table is still absent
C13_DeleteRaisesReached ==
    \E p \in Procs :
       /\ load[p].pc = "leaked"
       /\ load[p].read_failed
       /\ ~load[p].intxn
       /\ dbState = "ok" /\ ~tableExists

\* a call whose read failed completes when init_db creates the table between
\* the read and the DELETE
C13_CompletedReached ==
    \E p \in Procs :
       /\ load[p].pc = "written"
       /\ load[p].read_failed
       /\ load[p].txn # {}

----------------------------------------------------------------------------
(* C14 *)

\* the rating a row of the given id carried in rows (0 when none is rated)
RatingIn(rows, id) ==
    LET rated == {b \in rows : b.id = id /\ b.star_rating > 0}
    IN  IF rated = {} THEN {0} ELSE {b.star_rating : b \in rated}

\* C14: with two load_data calls running at once, the committed table
\* changes only when one of them commits (or in a rate_song, which changes
\* ratings only); at a commit it becomes exactly the rows of the committing
\* call's snapshot, one per record with the record's key, id and title and
\* no key twice, whatever the other call has written or committed; and the
\* other call shows only in the ratings, which are those of the table the
\* committing call read its overlay from, not those of the table it
\* replaces.
C14_LastCommitWins ==
    [][/\ \A p \in Procs :
             CommitStep(p) =>
                LET recs == load[p].songs
                IN  /\ Cardinality(songs') = Len(recs)
                    /\ Cardinality({r.idx : r \in songs'}) = Len(recs)
                    /\ \A n \in 1..Len(recs) :
                          \E r \in songs' :
                             /\ Some(r.idx) = Get(recs[n], "index")
                             /\ r.id = Get(recs[n], "id")
                             /\ r.title = Get(recs[n], "title")
                             /\ r.star_rating \in
                                  IF load[p].preserve_ratings
                                  THEN RatingIn(load[p].before, r.id)
                                  ELSE {0}
       /\ songs' # songs =>
             \/ \E p \in Procs : CommitStep(p)
             \/ /\ result'.op = "rate_song"
                /\ {Rerated(r, 0) : r \in songs'} = {Rerated(r, 0) : r \in songs}
      ]_vars

\* a call read its overlay (a rated 3) from the rows of one snapshot; the
\* other call then committed another snapshot with every rating reset; the
\* first call has written its rows, a rated 3, and is about to commit them
C14_Witness ==
    \E p \in Procs :
       /\ load[p].pc = "written"
       /\ load[p].preserve_ratings
       /\ {r.idx : r \in load[p].before} = {0, 1}
       /\ {r.idx : r \in songs} = {2, 5}
       /\ \A r \in songs : r.star_rating = 0
       /\ \E r \in load[p].txn : r.id = Some("a") /\ r.star_rating = 3

\* a call gave up on the write lock the other call's connection held
C14_BusyReached ==
    \E p, q \in Procs :
       /\ p # q
       /\ load[p].pc = "leaked" /\ ~load[p].intxn
       /\ load[q].intxn

----------------------------------------------------------------------------
(* C15 *)

\* the rated rows of a table that share the id of r and are read after it
LaterRated(rows, r) ==
    {s \in rows : s.id = r.id /\ s.star_rating > 0 /\ s.idx > r.idx}

\* the overlay half of C15: the overlay has an entry for exactly the ids of
\* the rated rows, and the entry of an id is the rating of the last rated
\* row of that id
LastReadWins(rows, overlay) ==
    LET rated == {r \in rows : r.star_rating > 0}
    IN  /\ DOMAIN overlay = {r.id : r \in rated}
        /\ \A r \in rated :
              LaterRated(rows, r) = {} => overlay[r.id] = r.star_rating

\* the first row of the given id in index order
FirstMatch(rows, song_id) ==
    CHOOSE r \in MatchingRows(rows, song_id) :
       \A s \in MatchingRows(rows, song_id) : r.idx <= s.idx

\* C15 as stated: the overlay takes, for an id that several rows share, the
\* rating of the last such row read; a rate_song that succeeds changes the
\* rating of the first row of that id and of no other row.
C15_AsStated ==
    [][/\ result'.op = "existing_ratings" =>
             LastReadWins(result'.before, result'.existing_ratings)
       /\ (result'.op = "rate_song" /\ result'.http = 200) =>
             LET first == FirstMatch(songs, result'.song_id)
             IN  songs' = (songs \ {first})
                             \cup {Rerated(first, result'.rating)}]_vars

\* C15, amended: the overlay takes the rating of the last such row read; a
\* rate_song that succeeds changes the rating of every row of that id, and
\* of no row of another id.
C15_DuplicateIds ==
    [][/\ result'.op = "existing_ratings" =>
             LastReadWins(result'.before, result'.existing_ratings)
       /\ (result'.op = "rate_song" /\ result'.http = 200) =>
             /\ Cardinality(songs') = Cardinality(songs)
             /\ \A r \in songs :
                   Rerated(r, IF r.id = Some(result'.song_id)
                              THEN result'.rating ELSE r.star_rating)
                      \in songs']_vars

\* a rate_song has rated both rows of the snapshot whose records share an id
C15_Witness ==
    /\ result.op = "rate_song"
    /\ result.http = 200
    /\ result.rating = 4
    /\ Cardinality({r \in songs : r.id = Some("a") /\ r.star_rating = 4}) = 2

\* the overlay of a table whose rows of id a are rated 3, then 5, and whose
\* last row is not rated, has 5 for a
C15_OverlayReached ==
    /\ result.op = "existing_ratings"
    /\ result.before =
          {StoredRow(0, "a", 3), StoredRow(1, "a", 5), StoredRow(2, "a", 0)}
    /\ result.existing_ratings[Some("a")] = 5

----------------------------------------------------------------------------
(* C16 *)

\* C16: starting from an empty table, every stored star_rating lies in
\* [0,5] after every step; the rows a load_data commits are rated 0.0 or a
\* rating that a row of the table carried when the call read it, whatever
\* star_rating the snapshot's records carry.
C16_StoredRatingsInRange ==
    [][/\ \A r \in songs' : 0 <= r.star_rating /\ r.star_rating <= 5
       /\ \A p \in Procs :
             CommitStep(p) =>
                \A r \in songs' :
                   \/ r.star_rating = 0
                   \/ \E b \in load[p].before :
                         b.star_rating = r.star_rating]_vars

\* a preserving load_data of the snapshot whose records carry star_rating 9
\* and 4 has committed its rows rated 0 and 5
C16_Witness ==
    /\ result.op = "load_data"
    /\ result.status = "ok"
    /\ result.path = "rev.json"
    /\ \E n \in 1..Len(RecordsOf("rev.json")) :
          Get(RecordsOf("rev.json")[n], "star_rating") = Some(9)
    /\ \E r \in songs : r.id = Some("a") /\ r.star_rating = 0
    /\ \E r \in songs : r.id = Some("b") /\ r.star_rating = 5

----------------------------------------------------------------------------
(* C17 *)

\* the store holds rows and was last written no earlier than the default
\* snapshot file
UpToDate ==
    /\ dbState = "ok"
    /\ tableExists
    /\ songs # {}
    /\ jsonMtime <= dbMtime

\* a step of rate_song, get_all_songs, search_by_title, init_db or
\* should_reload_data, or of a startup that does not reload
ServingStep ==
    \/ result'.op \in {"rate_song", "get_all_songs", "search_by_title",
                       "init_db", "should_reload_data"}
    \/ result'.op = "lifespan"

\* a startup takes its first step
StartupStep == result'.op = "lifespan" \/ (LoadCallStep /\ result'.caller = "lifespan")

\* C17: a load_data that succeeds with at least one record leaves the store
\* up to date; rate_song, get_all_songs, search_by_title, init_db,
\* should_reload_data and startups keep it so (only a write of the snapshot
\* file ends it); while it is so, should_reload_data returns False and a
\* startup loads nothing and leaves every row as it is.  A load_data of a
\* snapshot that normalizes to zero records leaves the table empty, the same
\* operations keep it empty, and every startup that finds the table empty,
\* that snapshot in place and a store it can open starts an ingestion again.
C17_NoReloadUntilModified ==
    [][/\ \A p \in Procs :
             (CommitStep(p) /\ Len(load[p].songs) >= 1) => UpToDate'
       /\ (UpToDate /\ ServingStep) => UpToDate'
       /\ (UpToDate /\ result'.op = "should_reload_data") =>
             result'.flag = FALSE
       /\ (UpToDate /\ StartupStep) =>
             /\ result'.op = "lifespan"
             /\ result'.status = "existing"
             /\ result'.count = Cardinality(songs)
             /\ UNCHANGED <<storeVars, load>>
       /\ \A p \in Procs :
             (CommitStep(p) /\ Len(load[p].songs) = 0) => songs' = {}
       /\ (songs = {} /\ ServingStep) => songs' = {}
       /\ ( /\ StartupStep
            /\ dbState # "corrupt"
            /\ songs = {}
            /\ FileContent(DEFAULT_JSON_FILE).kind = "json"
            /\ Len(RecordsOf(DEFAULT_JSON_FILE)) = 0 ) =>
             /\ result'.op = "load_data"
             /\ \E p \in Procs : load[p].pc = "idle" /\ load'[p].pc = "opened"
      ]_vars

\* a startup later than the last write of the store has found the snapshot
\* unchanged and kept the rows, one of them rated since the ingestion
C17_Witness ==
    /\ result.op = "lifespan"
    /\ result.status = "existing"
    /\ FileContent(DEFAULT_JSON_FILE).kind = "json"
    /\ UpToDate
    /\ clock > dbMtime
    /\ \E r \in songs : r.star_rating = 3

\* a startup ingests the empty snapshot into a store that an earlier
\* ingestion of the same, unchanged snapshot left with zero rows
C17_EmptyReingested ==
    \E p \in Procs :
       /\ load[p].pc = "opened"
       /\ load[p].caller = "lifespan"
       /\ Len(load[p].songs) = 0
       /\ tableExists /\ songs = {}
       /\ jsonMtime < dbMtime

====
